---- MODULE Spec2Model ----
(***************************************************************************)
(* Ingestion of session recordings into the gi2017_acquisition schema      *)
(* (pipeline/acquisition.py): the make steps of BehaviorAcquisition,       *)
(* IntracellularAcquisition, Spike, ExtracellularAcquisition and TrialSet, *)
(* run by a population engine over a pool of workers, and the per-trial    *)
(* segmentation of an acquisition stream.                                  *)
(***************************************************************************)
EXTENDS Integers, Sequences, FiniteSets, TLC

\* ------------------------------------------------------------------ bounds
NumKeys == 2
NumUnits == 2
NumTrials == 2
MaxTime == 3
MaxLen == 3

Keys == 1..NumKeys
\* The two population jobs that may run the same kind at the same time.
Workers == {1, 2}
Units == 1..NumUnits

\* The kinds whose make is defined in acquisition.py.
Kinds == {"BehaviorAcquisition", "IntracellularAcquisition", "Spike",
          "ExtracellularAcquisition", "TrialSet"}

\* ------------------------------------------------------- the container file
\* What the two data directories hold for a session key: no matching file, a
\* file with every group the make steps read, or a file with some groups absent.
FileVariants == {"none", "full", "partial"}

\* Number of samples of every timeseries of the file of key k.
SampleCount(k) == k + 1

\* The datasets present in the whole-cell file / the extracellular file.
WholeCellPaths(variant) ==
    IF variant = "full"
    THEN {"lick_trace_L", "lick_trace_R", "membrane_potential", "Vm_wo_spikes",
          "current_injection"}
    ELSE IF variant = "partial"
    THEN {"lick_trace_L", "membrane_potential", "Vm_wo_spikes"}
    ELSE {}

\* Units of the EventWaveform group, and the units the cell_types table names.
EventWaveformUnits(variant) == IF variant = "none" THEN {} ELSE Units
CellTypeUnits(variant) ==
    IF variant = "full" THEN Units
    ELSE IF variant = "partial" THEN Units \ {NumUnits}
    ELSE {}

\* Content of the datasets: distinct per dataset name, so that a stored
\* attribute read from the wrong dataset differs from the right one.
Base(name) ==
    CASE name = "lick_trace_L" -> 10
      [] name = "lick_trace_R" -> 20
      [] name = "membrane_potential" -> 30
      [] name = "Vm_wo_spikes" -> 40
      [] name = "current_injection" -> 50
      [] OTHER -> 0
NwbData(k, name) == [i \in 1..SampleCount(k) |-> Base(name) + i]
NwbTimestamps(k, name) == [i \in 1..SampleCount(k) |-> i]
\* electrode_idx of unit u in the file of key k: 1-based, 1 included.
ElectrodeIdx(k, u) == k + u - 1

\* ------------------------------------------------------------ Python values
\* np.array(dataset): a 1-D array.  (x,) : a tuple of one element.
NpArray(s) == [type |-> "ndarray", len |-> Len(s), items |-> s]
Tuple1(v) == [type |-> "tuple", len |-> 1, items |-> v.items]

VARIABLES
    session_file,               \* key -> variant of the files matching the key
    BehaviorAcquisition,        \* tables: sets of rows
    LickTrace,
    IntracellularAcquisition,
    MembranePotential,
    CurrentInjection,
    Spike,
    ExtracellularAcquisition,
    TrialSet,
    Trial,
    writer,                     \* kind -> key -> worker whose insert stored the rows in this run
    unreleased,                 \* <<kind, key>> of make calls that left nwb open
    batch,                      \* kind being populated, or "none"
    again,                      \* this run repeats the previous run's kind
    joined,                     \* workers that called populate in this run
    keys,                       \* worker -> keys fetched by its populate call
    outcome,                    \* worker -> key -> result of the key in this run
    cur,                        \* worker -> key being made
    pc,                         \* worker -> position
    unit,                       \* worker -> next unit of the Spike loop
    stream_ts,                  \* timestamps of the session's acquisition streams
    TrialSegmented              \* rows of the Trial* kinds

tables == <<BehaviorAcquisition, LickTrace, IntracellularAcquisition,
            MembranePotential, CurrentInjection, Spike,
            ExtracellularAcquisition, TrialSet, Trial>>
engine == <<batch, again, joined, keys, outcome, cur, pc, unit>>
segvars == <<stream_ts, TrialSegmented>>
vars == <<session_file, tables, writer, unreleased, engine, segvars>>

\* --------------------------------------------------------------- the catalog
None == "none"

\* utilities.find_session_matched_nwbfile: the matching file of the key, or None.
find_session_matched_nwbfile(k) == session_file[k]

\* Keys of the rows a kind's table holds for its primary key.
MasterKeys(kd) ==
    CASE kd = "BehaviorAcquisition" -> {r.key : r \in BehaviorAcquisition}
      [] kd = "IntracellularAcquisition" -> {r.key : r \in IntracellularAcquisition}
      [] kd = "Spike" -> {r.key : r \in Spike}
      [] kd = "ExtracellularAcquisition" -> {r.key : r \in ExtracellularAcquisition}
      [] kd = "TrialSet" -> {r.key : r \in TrialSet}

MakePcs == {"ba_find", "ba_insert1", "ba_licktrace",
            "ia_find", "ia_insert1", "ia_mp", "ia_ci",
            "sp_find", "sp_unit", "ea_make", "ts_make"}
\* Positions of a make step at which the file handle nwb is open.
OpenPcs == {"ba_insert1", "ba_licktrace", "ia_insert1", "ia_mp", "ia_ci", "sp_unit"}

InMake(w) == pc[w] \in MakePcs

\* The rows of (kd, k) belong to the open transaction of worker w.
Holds(w, kd, k) == InMake(w) /\ batch = kd /\ cur[w] = k /\ writer[kd][k] = w

\* The rows of (kd, k) are stored and committed: what another connection sees.
Committed(kd, k) == k \in MasterKeys(kd) /\ ~ \E w \in Workers : Holds(w, kd, k)

Without(T, k) == {r \in T : r.key # k}

Min(S) == CHOOSE x \in S : \A y \in S : x <= y

\* ------------------------------------------------------ the population engine
FirstPc(kd) ==
    CASE kd = "BehaviorAcquisition" -> "ba_find"
      [] kd = "IntracellularAcquisition" -> "ia_find"
      [] kd = "Spike" -> "sp_find"
      [] kd = "ExtracellularAcquisition" -> "ea_make"
      [] kd = "TrialSet" -> "ts_make"

\* Variant: a populate call that stops after one key.
KeysToPopulateOne(kd) ==
    LET todo == {k \in Keys : ~Committed(kd, k)}
    IN  IF todo = {} THEN {} ELSE {Min(todo)}
\* The keys of the key source (every registered locus) not yet in the kind's table.
KeysToPopulate(kd) == {k \in Keys : ~Committed(kd, k)}

\* A population run of kind kd starts.
StartBatch(kd) ==
    /\ batch = None
    /\ batch' = kd
    /\ UNCHANGED <<session_file, tables, writer, unreleased, again, joined,
                   keys, outcome, cur, pc, unit, segvars>>

\* Worker w calls populate for the kind of the run: fetches the outstanding keys.
Populate(w) ==
    /\ batch # None
    /\ w \notin joined
    /\ pc[w] = "idle"
    /\ joined' = joined \cup {w}
    /\ keys' = [keys EXCEPT ![w] = KeysToPopulate(batch)]
    /\ pc' = [pc EXCEPT ![w] = "next"]
    /\ UNCHANGED <<session_file, tables, writer, unreleased, batch, again,
                   outcome, cur, unit, segvars>>

\* The loop over the fetched keys: the next key opens a transaction; a key that
\* is in the table by now is skipped, any other is handed to make.
NextKey(w) ==
    /\ pc[w] = "next"
    /\ LET rest == {k \in keys[w] : outcome[w][k] = "none"} IN
       IF rest = {}
       THEN /\ pc' = [pc EXCEPT ![w] = "done"]
            /\ UNCHANGED <<cur, outcome>>
       ELSE LET k == Min(rest) IN
            /\ cur' = [cur EXCEPT ![w] = k]
            /\ IF Committed(batch, k)
               THEN /\ outcome' = [outcome EXCEPT ![w][k] = "skipped"]
                    /\ UNCHANGED pc
               ELSE /\ pc' = [pc EXCEPT ![w] = FirstPc(batch)]
                    /\ UNCHANGED outcome
    /\ UNCHANGED <<session_file, tables, writer, unreleased, batch, again,
                   joined, keys, unit, segvars>>

\* The run ends when every worker that joined it has gone through its keys;
\* rerun: population of the same kind is run again at once.
EndBatch(rerun) ==
    /\ batch # None
    /\ joined # {}
    /\ \A w \in joined : pc[w] = "done"
    /\ batch' = IF rerun THEN batch ELSE None
    /\ again' = rerun
    /\ joined' = {}
    /\ writer' = [kd \in Kinds |-> [k \in Keys |-> 0]]
    /\ keys' = [w \in Workers |-> {}]
    /\ outcome' = [w \in Workers |-> [k \in Keys |-> "none"]]
    /\ cur' = [w \in Workers |-> 0]
    /\ pc' = [w \in Workers |-> "idle"]
    /\ UNCHANGED <<session_file, tables, unreleased, unit, segvars>>

\* make returned: the transaction commits.  leak: nwb was opened and not closed.
Return(w, leak) ==
    /\ outcome' = [outcome EXCEPT ![w][cur[w]] =
                      IF writer'[batch][cur[w]] = w THEN "inserted" ELSE "noop"]
    /\ pc' = [pc EXCEPT ![w] = "next"]
    /\ unit' = [unit EXCEPT ![w] = 1]
    /\ unreleased' = IF leak THEN unreleased \cup {<<batch, cur[w]>>} ELSE unreleased
    /\ UNCHANGED <<session_file, batch, again, joined, keys, cur, segvars>>

\* The rows of key k written by worker w in this transaction are removed.
Rollback(w, k) ==
    LET mine == writer[batch][k] = w
        Rb(T, kd) == IF mine /\ batch = kd THEN Without(T, k) ELSE T
    IN  /\ BehaviorAcquisition' = Rb(BehaviorAcquisition, "BehaviorAcquisition")
        /\ LickTrace' = Rb(LickTrace, "BehaviorAcquisition")
        /\ IntracellularAcquisition' = Rb(IntracellularAcquisition, "IntracellularAcquisition")
        /\ MembranePotential' = Rb(MembranePotential, "IntracellularAcquisition")
        /\ CurrentInjection' = Rb(CurrentInjection, "IntracellularAcquisition")
        /\ Spike' = Rb(Spike, "Spike")
        /\ UNCHANGED <<ExtracellularAcquisition, TrialSet, Trial>>
        /\ writer' = IF mine THEN [writer EXCEPT ![batch][k] = 0] ELSE writer

\* After a failed key: an abort variant that gives up the remaining keys.
AfterFailureAbort(w) == "done"
\* After a failed key the loop goes on with the next key.
AfterFailure(w) == "next"

\* make raised cond: the transaction is rolled back and the failure is caught at
\* the key; a DuplicateKey counts as a key already present.
Raise(w, cond, leak) ==
    /\ Rollback(w, cur[w])
    /\ outcome' = [outcome EXCEPT ![w][cur[w]] =
                      IF cond = "DuplicateKey" THEN "skipped" ELSE "failed"]
    /\ pc' = [pc EXCEPT ![w] = AfterFailure(w)]
    /\ unit' = [unit EXCEPT ![w] = 1]
    /\ unreleased' = IF leak THEN unreleased \cup {<<batch, cur[w]>>} ELSE unreleased
    /\ UNCHANGED <<session_file, batch, again, joined, keys, cur, segvars>>

\* Moving on inside make.
Goto(w, to) ==
    /\ pc' = [pc EXCEPT ![w] = to]
    /\ UNCHANGED <<session_file, unreleased, batch, again, joined, keys,
                   outcome, cur, segvars>>

\* ------------------------------------------------- BehaviorAcquisition.make
LickTraceRow(k) ==
    [key |-> k,
     lick_trace_left |-> NpArray(NwbData(k, "lick_trace_L")),
     lick_trace_right |-> NpArray(NwbData(k, "lick_trace_R")),
     lick_trace_time_stamps |-> NpArray(NwbTimestamps(k, "lick_trace_L"))]

\* Variant: the master row is inserted before the file is looked for.
BA_find_insert_first(w) ==
    /\ pc[w] = "ba_find"
    /\ BehaviorAcquisition' = BehaviorAcquisition \cup {[key |-> cur[w]]}
    /\ writer' = [writer EXCEPT !["BehaviorAcquisition"][cur[w]] = w]
    /\ UNCHANGED <<LickTrace, IntracellularAcquisition, MembranePotential,
                   CurrentInjection, Spike, ExtracellularAcquisition, TrialSet, Trial>>
    /\ Return(w, FALSE)

\* Lines 68-78: locate the file; None returns; otherwise the file is opened.
BA_find(w) ==
    /\ pc[w] = "ba_find"
    /\ UNCHANGED <<tables, writer>>
    /\ IF find_session_matched_nwbfile(cur[w]) = None
       THEN Return(w, FALSE)
       ELSE Goto(w, "ba_insert1") /\ UNCHANGED unit

\* Variant: insert1(key, replace=True), which overwrites a stored row.
BA_insert1_replace(w) ==
    /\ pc[w] = "ba_insert1"
    /\ BehaviorAcquisition' = BehaviorAcquisition \cup {[key |-> cur[w]]}
    /\ writer' = [writer EXCEPT !["BehaviorAcquisition"][cur[w]] = w]
    /\ UNCHANGED <<LickTrace, IntracellularAcquisition, MembranePotential,
                   CurrentInjection, Spike, ExtracellularAcquisition, TrialSet, Trial>>
    /\ Goto(w, "ba_licktrace") /\ UNCHANGED unit

\* Variant: the part row is inserted where the master row should be.
BA_insert1_part_first(w) ==
    /\ pc[w] = "ba_insert1"
    /\ LickTrace' = LickTrace \cup {LickTraceRow(cur[w])}
    /\ writer' = [writer EXCEPT !["BehaviorAcquisition"][cur[w]] = w]
    /\ UNCHANGED <<BehaviorAcquisition, IntracellularAcquisition, MembranePotential,
                   CurrentInjection, Spike, ExtracellularAcquisition, TrialSet, Trial>>
    /\ Goto(w, "ba_licktrace") /\ UNCHANGED unit

\* Line 81: self.insert1(key).  A row of another open transaction blocks the
\* insert; a committed row makes it raise DuplicateKey.
BA_insert1(w) ==
    /\ pc[w] = "ba_insert1"
    /\ LET k == cur[w] IN
       IF k \in MasterKeys("BehaviorAcquisition")
       THEN /\ Committed("BehaviorAcquisition", k)
            /\ Raise(w, "DuplicateKey", TRUE)
       ELSE /\ BehaviorAcquisition' = BehaviorAcquisition \cup {[key |-> k]}
            /\ writer' = [writer EXCEPT !["BehaviorAcquisition"][k] = w]
            /\ UNCHANGED <<LickTrace, IntracellularAcquisition, MembranePotential,
                           CurrentInjection, Spike, ExtracellularAcquisition,
                           TrialSet, Trial>>
            /\ Goto(w, "ba_licktrace") /\ UNCHANGED unit

\* Lines 84-87: read the three datasets (an absent one raises) and insert the
\* LickTrace part; make returns with nwb still open.
BA_LickTrace(w) ==
    /\ pc[w] = "ba_licktrace"
    /\ LET k == cur[w] IN
       IF {"lick_trace_L", "lick_trace_R"} \subseteq WholeCellPaths(session_file[k])
       THEN /\ LickTrace' = LickTrace \cup {LickTraceRow(k)}
            /\ UNCHANGED <<BehaviorAcquisition, IntracellularAcquisition,
                           MembranePotential, CurrentInjection, Spike,
                           ExtracellularAcquisition, TrialSet, Trial, writer>>
            /\ Return(w, TRUE)
       ELSE Raise(w, "MissingField", TRUE)

\* --------------------------------------------- IntracellularAcquisition.make
MembranePotentialRow(k) ==
    [key |-> k,
     membrane_potential |-> NpArray(NwbData(k, "membrane_potential")),
     membrane_potential_wo_spike |-> NpArray(NwbData(k, "Vm_wo_spikes")),
     membrane_potential_time_stamps |-> NpArray(NwbTimestamps(k, "membrane_potential"))]

\* Line 161 ends in a comma: the stored value is the tuple (array,).
CurrentInjectionRow(k) ==
    [key |-> k,
     current_injection |-> NpArray(NwbData(k, "current_injection")),
     current_injection_time_stamps |->
         Tuple1(NpArray(NwbTimestamps(k, "current_injection")))]

\* Lines 139-149: locate the file; None returns; otherwise the file is opened.
IA_find(w) ==
    /\ pc[w] = "ia_find"
    /\ UNCHANGED <<tables, writer>>
    /\ IF find_session_matched_nwbfile(cur[w]) = None
       THEN Return(w, FALSE)
       ELSE Goto(w, "ia_insert1") /\ UNCHANGED unit

\* Line 152: self.insert1(key).
IA_insert1(w) ==
    /\ pc[w] = "ia_insert1"
    /\ LET k == cur[w] IN
       IF k \in MasterKeys("IntracellularAcquisition")
       THEN /\ Committed("IntracellularAcquisition", k)
            /\ Raise(w, "DuplicateKey", TRUE)
       ELSE /\ IntracellularAcquisition' = IntracellularAcquisition \cup {[key |-> k]}
            /\ writer' = [writer EXCEPT !["IntracellularAcquisition"][k] = w]
            /\ UNCHANGED <<BehaviorAcquisition, LickTrace, MembranePotential,
                           CurrentInjection, Spike, ExtracellularAcquisition,
                           TrialSet, Trial>>
            /\ Goto(w, "ia_mp") /\ UNCHANGED unit

\* Lines 155-158: read the membrane potential datasets, insert the part.
IA_MembranePotential(w) ==
    /\ pc[w] = "ia_mp"
    /\ LET k == cur[w] IN
       IF {"membrane_potential", "Vm_wo_spikes"} \subseteq WholeCellPaths(session_file[k])
       THEN /\ MembranePotential' = MembranePotential \cup {MembranePotentialRow(k)}
            /\ UNCHANGED <<BehaviorAcquisition, LickTrace, IntracellularAcquisition,
                           CurrentInjection, Spike, ExtracellularAcquisition,
                           TrialSet, Trial, writer>>
            /\ Goto(w, "ia_ci") /\ UNCHANGED unit
       ELSE Raise(w, "MissingField", TRUE)

\* Variant: an absent current_injection group is passed over and make returns.
IA_CurrentInjection_swallow(w) ==
    /\ pc[w] = "ia_ci"
    /\ LET k == cur[w] IN
       /\ CurrentInjection' =
              IF "current_injection" \in WholeCellPaths(session_file[k])
              THEN CurrentInjection \cup {CurrentInjectionRow(k)}
              ELSE CurrentInjection
       /\ UNCHANGED <<BehaviorAcquisition, LickTrace, IntracellularAcquisition,
                      MembranePotential, Spike, ExtracellularAcquisition,
                      TrialSet, Trial, writer>>
       /\ Return(w, FALSE)

\* Lines 160-163: read the current injection datasets, insert the part, close nwb.
IA_CurrentInjection(w) ==
    /\ pc[w] = "ia_ci"
    /\ LET k == cur[w] IN
       IF "current_injection" \in WholeCellPaths(session_file[k])
       THEN /\ CurrentInjection' = CurrentInjection \cup {CurrentInjectionRow(k)}
            /\ UNCHANGED <<BehaviorAcquisition, LickTrace, IntracellularAcquisition,
                           MembranePotential, Spike, ExtracellularAcquisition,
                           TrialSet, Trial, writer>>
            /\ Return(w, FALSE)
       ELSE Raise(w, "MissingField", TRUE)

\* ------------------------------------------------------------------ Spike.make
\* Variant: the external index is stored as it is.
ChannelIdUnadjusted(electrode_idx) == electrode_idx
\* Line 237: electrode_idx ... - 1.
ChannelId(electrode_idx) == electrode_idx - 1

SpikeRow(k, u) ==
    [key |-> k, unit_id |-> u, channel_id |-> ChannelId(ElectrodeIdx(k, u))]

\* Lines 210-232: locate the file; None returns; otherwise the file is opened
\* and the cell_types table is parsed into the cell_type mapping.
SP_find(w) ==
    /\ pc[w] = "sp_find"
    /\ UNCHANGED <<tables, writer>>
    /\ IF find_session_matched_nwbfile(cur[w]) = None
       THEN Return(w, FALSE)
       ELSE Goto(w, "sp_unit") /\ UNCHANGED unit

\* Lines 233-247: one turn of the loop over the units of EventWaveform: the
\* unit's fields are read (cell_type[unit_str] raises for a unit the table does
\* not name) and the unit is inserted; after the last unit nwb is closed.
SP_unit(w) ==
    /\ pc[w] = "sp_unit"
    /\ LET k == cur[w]
           u == unit[w]
       IN
       IF u \notin CellTypeUnits(session_file[k])
       THEN Raise(w, "MissingField", TRUE)
       ELSE IF \E r \in Spike : r.key = k /\ r.unit_id = u
       THEN /\ Committed("Spike", k)
            /\ Raise(w, "DuplicateKey", TRUE)
       ELSE /\ Spike' = Spike \cup {SpikeRow(k, u)}
            /\ writer' = [writer EXCEPT !["Spike"][k] = w]
            /\ UNCHANGED <<BehaviorAcquisition, LickTrace, IntracellularAcquisition,
                           MembranePotential, CurrentInjection,
                           ExtracellularAcquisition, TrialSet, Trial>>
            /\ IF u = NumUnits
               THEN Return(w, FALSE)
               ELSE /\ Goto(w, "sp_unit")
                    /\ unit' = [unit EXCEPT ![w] = u + 1]

\* ------------------------- ExtracellularAcquisition.make and TrialSet.make
\* Lines 189-191: return None.
EA_make(w) ==
    /\ pc[w] = "ea_make"
    /\ UNCHANGED <<tables, writer>>
    /\ Return(w, FALSE)

\* Lines 281-283: return None.
TS_make(w) ==
    /\ pc[w] = "ts_make"
    /\ UNCHANGED <<tables, writer>>
    /\ Return(w, FALSE)

\* ---------------------------------------------------------- the specification
Init ==
    /\ session_file \in [Keys -> FileVariants]
    /\ BehaviorAcquisition = {}
    /\ LickTrace = {}
    /\ IntracellularAcquisition = {}
    /\ MembranePotential = {}
    /\ CurrentInjection = {}
    /\ Spike = {}
    /\ ExtracellularAcquisition = {}
    /\ TrialSet = {}
    /\ Trial = {}
    /\ writer = [kd \in Kinds |-> [k \in Keys |-> 0]]
    /\ unreleased = {}
    /\ batch = None
    /\ again = FALSE
    /\ joined = {}
    /\ keys = [w \in Workers |-> {}]
    /\ outcome = [w \in Workers |-> [k \in Keys |-> "none"]]
    /\ cur = [w \in Workers |-> 0]
    /\ pc = [w \in Workers |-> "idle"]
    /\ unit = [w \in Workers |-> 1]
    /\ stream_ts = <<>>
    /\ TrialSegmented = {}

Next ==
    \/ \E kd \in Kinds : StartBatch(kd)
    \/ \E w \in Workers : Populate(w)
    \/ \E w \in Workers : NextKey(w)
    \/ \E rerun \in BOOLEAN : EndBatch(rerun)
    \/ \E w \in Workers : BA_find(w)
    \/ \E w \in Workers : BA_insert1(w)
    \/ \E w \in Workers : BA_LickTrace(w)
    \/ \E w \in Workers : IA_find(w)
    \/ \E w \in Workers : IA_insert1(w)
    \/ \E w \in Workers : IA_MembranePotential(w)
    \/ \E w \in Workers : IA_CurrentInjection(w)
    \/ \E w \in Workers : SP_find(w)
    \/ \E w \in Workers : SP_unit(w)
    \/ \E w \in Workers : EA_make(w)
    \/ \E w \in Workers : TS_make(w)

Spec == Init /\ [][Next]_vars

\* ---------------------------------------------------------------- segmentation
\* The Trial* kinds of acquisition.py, one per Acquisition kind.
SegmentedKinds == {"TrialBehavior", "TrialIntracellular", "TrialExtracellular",
                   "TrialPhotoStimulus"}

\* The value array of the parent Acquisition of a Trial* kind, n samples long.
KindBase(kd) ==
    CASE kd = "TrialBehavior" -> 10
      [] kd = "TrialIntracellular" -> 30
      [] kd = "TrialExtracellular" -> 60
      [] kd = "TrialPhotoStimulus" -> 70
ParentValues(kd, n) == [i \in 1..n |-> KindBase(kd) + i]

\* Binary search in sorted ts: the number of timestamps < x, and <= x.
RECURSIVE BisectLeft(_, _, _, _)
BisectLeft(ts, x, lo, hi) ==
    IF lo >= hi THEN lo
    ELSE LET mid == (lo + hi) \div 2 IN
         IF ts[mid + 1] < x THEN BisectLeft(ts, x, mid + 1, hi)
         ELSE BisectLeft(ts, x, lo, mid)

RECURSIVE BisectRight(_, _, _, _)
BisectRight(ts, x, lo, hi) ==
    IF lo >= hi THEN lo
    ELSE LET mid == (lo + hi) \div 2 IN
         IF ts[mid + 1] <= x THEN BisectRight(ts, x, mid + 1, hi)
         ELSE BisectRight(ts, x, lo, mid)

\* Variant: the window taken half-open, stop excluded.
segment_half_open(values, ts, start, stop) ==
    SubSeq(values, BisectLeft(ts, start, 0, Len(ts)) + 1,
                   BisectLeft(ts, stop, 0, Len(ts)))

\* segment(values, timestamps, trialWindow): the slice of values in the window.
segment(values, ts, start, stop) ==
    SubSeq(values, BisectLeft(ts, start, 0, Len(ts)) + 1,
                   BisectRight(ts, stop, 0, Len(ts)))

\* Population of a Trial* kind for the next trial of the session, in key order.
TrialSegmented_make(kd, t) ==
    /\ t \in Trial
    /\ ~ \E r \in TrialSegmented : r.kind = kd /\ r.trial_id = t.trial_id
    /\ \A t2 \in Trial :
           t2.trial_id < t.trial_id =>
               \E r \in TrialSegmented : r.kind = kd /\ r.trial_id = t2.trial_id
    /\ TrialSegmented' = TrialSegmented \cup
           {[kind |-> kd, trial_id |-> t.trial_id,
             segmented |-> segment(ParentValues(kd, Len(stream_ts)), stream_ts,
                                   t.start_time, t.stop_time)]}
    /\ UNCHANGED <<session_file, tables, writer, unreleased, engine, stream_ts>>

\* Sorted timestamp vectors and registered, non-overlapping trials.
Times == 0..MaxTime
SortedStreams ==
    {ts \in UNION {[1..n -> Times] : n \in 0..MaxLen} :
        \A i \in 1..(Len(ts) - 1) : ts[i] <= ts[i + 1]}
TrialTables ==
    {{[key |-> 1, trial_id |-> i, start_time |-> w[i][1], stop_time |-> w[i][2]] :
         i \in 1..NumTrials} :
     w \in {v \in [1..NumTrials -> Times \X Times] :
               /\ \A i \in 1..NumTrials : v[i][1] < v[i][2]
               /\ \A i \in 1..(NumTrials - 1) : v[i][2] <= v[i + 1][1]}}

SegInit ==
    /\ session_file = [k \in Keys |-> None]
    /\ BehaviorAcquisition = {}
    /\ LickTrace = {}
    /\ IntracellularAcquisition = {}
    /\ MembranePotential = {}
    /\ CurrentInjection = {}
    /\ Spike = {}
    /\ ExtracellularAcquisition = {}
    /\ TrialSet = {[key |-> 1]}
    /\ Trial \in TrialTables
    /\ writer = [kd \in Kinds |-> [k \in Keys |-> 0]]
    /\ unreleased = {}
    /\ batch = None
    /\ again = FALSE
    /\ joined = {}
    /\ keys = [w \in Workers |-> {}]
    /\ outcome = [w \in Workers |-> [k \in Keys |-> "none"]]
    /\ cur = [w \in Workers |-> 0]
    /\ pc = [w \in Workers |-> "idle"]
    /\ unit = [w \in Workers |-> 1]
    /\ stream_ts \in SortedStreams
    /\ TrialSegmented = {}

SegNext == \E kd \in SegmentedKinds, t \in Trial : TrialSegmented_make(kd, t)

SegSpec == SegInit /\ [][SegNext]_vars

\* ---------------------------------------------------------------- properties
FileKinds == {"BehaviorAcquisition", "IntracellularAcquisition", "Spike"}

\* Keys with a row in table T.
KeysOf(T) == {r.key : r \in T}

\* No make step is at work on key k of kind kd.
Ended(kd, k) == ~ \E w \in Workers : InMake(w) /\ batch = kd /\ cur[w] = k

\* The rows every other connection sees.
CommittedRows ==
    LET Vis(T, kd) == {r \in T : Committed(kd, r.key)}
    IN  <<Vis(BehaviorAcquisition, "BehaviorAcquisition"),
          Vis(LickTrace, "BehaviorAcquisition"),
          Vis(IntracellularAcquisition, "IntracellularAcquisition"),
          Vis(MembranePotential, "IntracellularAcquisition"),
          Vis(CurrentInjection, "IntracellularAcquisition"),
          Vis(Spike, "Spike"),
          ExtracellularAcquisition, TrialSet, Trial>>

\* C1: a key with no matching file never has a row in BehaviorAcquisition,
\* IntracellularAcquisition, Spike or their parts, and its make never fails.
C1_NoFileNoRows ==
    \A k \in Keys :
        session_file[k] = None =>
            /\ k \notin KeysOf(BehaviorAcquisition) \cup KeysOf(LickTrace)
            /\ k \notin KeysOf(IntracellularAcquisition)
                        \cup KeysOf(MembranePotential) \cup KeysOf(CurrentInjection)
            /\ k \notin KeysOf(Spike)
            /\ \A w \in Workers :
                   batch \in FileKinds => outcome[w][k] \in {"none", "noop"}

\* A key without a file was made in a first and in a repeated run of Spike.
C1_Witness ==
    /\ batch = "Spike"
    /\ again
    /\ \E w \in Workers, k \in Keys :
           session_file[k] = None /\ outcome[w][k] = "noop" /\ pc[w] = "done"

\* C2: once the make step of a key has ended, normally or by a failure, the
\* key has its master row and every part row (every unit row), or no row at all.
C2_PerKeyAtomicity ==
    \A k \in Keys :
        /\ Ended("BehaviorAcquisition", k) =>
               (k \in KeysOf(BehaviorAcquisition) <=> k \in KeysOf(LickTrace))
        /\ Ended("IntracellularAcquisition", k) =>
               /\ k \in KeysOf(IntracellularAcquisition) <=> k \in KeysOf(MembranePotential)
               /\ k \in KeysOf(IntracellularAcquisition) <=> k \in KeysOf(CurrentInjection)
        /\ Ended("Spike", k) =>
               LET units == {r.unit_id : r \in {x \in Spike : x.key = k}}
               IN  units = {} \/ units = EventWaveformUnits(session_file[k])

\* Two makes failed after they had inserted: Spike on its last unit (the make
\* left nwb open) and Intracellular after the master and the MembranePotential
\* part; nothing of the key is left.
C2_Witness ==
    /\ batch = "IntracellularAcquisition"
    /\ \E w \in Workers, k \in Keys :
           /\ outcome[w][k] = "failed"
           /\ session_file[k] = "partial"
           /\ k \notin KeysOf(IntracellularAcquisition) \cup KeysOf(MembranePotential)
           /\ <<"Spike", k>> \in unreleased
           /\ k \notin KeysOf(Spike)

\* C3: in a population run that repeats the run before it, for any kind, no key
\* is inserted and the committed rows stay as the first run left them.
C3_Idempotence ==
    [][again =>
          /\ CommittedRows' = CommittedRows
          /\ \A w \in Workers, k \in Keys : outcome'[w][k] # "inserted"]_vars

\* A repeated run of BehaviorAcquisition has ended: one key is stored, another
\* was made again and again came to nothing.
C3_Witness ==
    /\ again
    /\ batch = "BehaviorAcquisition"
    /\ \E w \in joined :
           /\ pc[w] = "done"
           /\ \E k1, k2 \in Keys :
                  /\ Committed("BehaviorAcquisition", k1)
                  /\ outcome[w][k2] \in {"noop", "failed"}

\* C4: when no make step is at work, no file handle is open.
C4_HandlesReleased ==
    (\A w \in Workers : pc[w] \notin OpenPcs) => unreleased = {}

\* C5: a populate call that has ended has gone through every key it fetched,
\* the keys after a failed key included.
C5_FailureIsolation ==
    \A w \in Workers :
        pc[w] = "done" => \A k \in keys[w] : outcome[w][k] # "none"

\* A populate call has ended with a failed key and a later key inserted.
C5_Witness ==
    \E w \in Workers :
        /\ pc[w] = "done"
        /\ \E k1, k2 \in keys[w] :
               k1 < k2 /\ outcome[w][k1] = "failed" /\ outcome[w][k2] = "inserted"

\* The matching file of key k holds everything the make of kind kd reads.
FileComplete(kd, k) == kd \in FileKinds /\ session_file[k] = "full"

\* The values at the indices i with a <= ts[i] <= b, in stream order.
InWindow(values, ts, a, b) ==
    LET F[i \in 0..Len(ts)] ==
            IF i = 0 THEN <<>>
            ELSE IF a <= ts[i] /\ ts[i] <= b THEN Append(F[i - 1], values[i])
            ELSE F[i - 1]
    IN  F[Len(ts)]

C8_ChannelIndex ==
    \A r \in Spike :
        /\ r.channel_id = ElectrodeIdx(r.key, r.unit_id) - 1
        /\ r.channel_id >= 0

\* Units with external index 1 and with a larger index are stored.
C8_Witness ==
    /\ \E r \in Spike : ElectrodeIdx(r.key, r.unit_id) = 1 /\ r.channel_id = 0
    /\ \E r \in Spike : ElectrodeIdx(r.key, r.unit_id) > 1

\* C9: no part row is stored without its master row.
C9_ParentBeforePart ==
    /\ KeysOf(LickTrace) \subseteq KeysOf(BehaviorAcquisition)
    /\ KeysOf(MembranePotential) \subseteq KeysOf(IntracellularAcquisition)
    /\ KeysOf(CurrentInjection) \subseteq KeysOf(IntracellularAcquisition)
    /\ KeysOf(Trial) \subseteq KeysOf(TrialSet)

\* A master row is stored with its part still to come, and part rows are stored.
C9_Witness ==
    /\ LickTrace # {}
    /\ CurrentInjection # {}
    /\ \E w \in Workers :
           /\ pc[w] = "ia_mp"
           /\ cur[w] \in KeysOf(IntracellularAcquisition)
           /\ cur[w] \notin KeysOf(MembranePotential)

\* C10: every stored timestamp attribute is the 1-D timestamps array of the
\* file, as long as the value arrays stored with it.
C10_TimeSeriesPairing ==
    /\ \A r \in CurrentInjection :
           /\ r.current_injection_time_stamps =
                  NpArray(NwbTimestamps(r.key, "current_injection"))
           /\ r.current_injection_time_stamps.len = r.current_injection.len
    /\ \A r \in MembranePotential :
           /\ r.membrane_potential_time_stamps =
                  NpArray(NwbTimestamps(r.key, "membrane_potential"))
           /\ r.membrane_potential_time_stamps.len = r.membrane_potential.len
           /\ r.membrane_potential_time_stamps.len = r.membrane_potential_wo_spike.len
    /\ \A r \in LickTrace :
           /\ r.lick_trace_time_stamps = NpArray(NwbTimestamps(r.key, "lick_trace_L"))
           /\ r.lick_trace_time_stamps.len = r.lick_trace_left.len
           /\ r.lick_trace_time_stamps.len = r.lick_trace_right.len
====
